---- MODULE Spec2Model ----
(***************************************************************************)
(* Open Graph meta tag module (og-meta.js): the pipeline that reads the    *)
(* navigation target, resolves the series in the ARSIV catalog,            *)
(* synthesizes ten tag definitions and upserts them into the document.     *)
(*                                                                         *)
(* A JavaScript string is a sequence of one-character strings, so that     *)
(* startsWith, substring, trim, concatenation, parseInt and                *)
(* decodeURIComponent are computed character by character.  A nullable     *)
(* value is Null (the empty tuple) or Some(v) (the one-element tuple).     *)
(***************************************************************************)
EXTENDS Integers, Sequences, FiniteSets, TLC

VARIABLES
  head,        \* the document's meta elements, in document order
  head0,       \* the meta elements of the page as it was served
  location,    \* the current navigation target
  ARSIV,       \* the catalog global, as the page's other scripts left it
  loaded,      \* whether DOMContentLoaded has fired
  outcome,     \* how the last run of initializeOpenGraphTags ended
  params,      \* the last run's ParameterSet
  seriesData,  \* the last run's catalog resolution result
  metaTags,    \* the last synthesized tag definition list
  superseded,  \* whether the last run completed after a completed run for
               \* another navigation target
  url,         \* the argument of a direct convertToAbsoluteURL call
  absolute     \* the value that call returned

vars ==
  <<head, head0, location, ARSIV, loaded, outcome, params, seriesData,
    metaTags, superseded, url, absolute>>

Null == <<>>

Some(v) == <<v>>

EmptyString == <<>>

\* ------------------------------------------------------------ constants

DefaultTitle ==
  <<"Z","e","b","z","e","M","a","n","g","a"," ","-"," ","T","ü","r","k","ç",
    "e"," ","M","a","n","g","a"," ","O","k","u">>

\* ("\\u015F" stands for the one character U+015F, which a TLA+ string
\* cannot hold.)
DefaultDescription ==
  <<"Z","e","b","z","e","M","a","n","g","a","'","d","a"," ","e","n"," ","y",
    "e","n","i"," ","m","a","n","g","a"," ","v","e"," ","w","e","b","t","o",
    "o","n"," ","s","e","r","i","l","e","r","i","n","i"," ","T","ü","r","k",
    "ç","e"," ","o","k","u","y","u","n","."," ","G","ü","n","c","e","l"," ",
    "b","ö","l","ü","m","l","e","r"," ","v","e"," ","g","e","n","i","\\u015F"," ",
    "a","r","\\u015F","i","v",".">>

DefaultImage ==
  <<"h","t","t","p","s",":","/","/","z","e","b","z","e","t","o","o","n",".",
    "v","e","r","c","e","l",".","a","p","p","/","l","o","g","o","/","z","l",
    "o","g","o",".","p","n","g">>

DefaultSiteName ==
  <<"Z","e","b","z","e"," ","T","o","o","n">>

DefaultType ==
  <<"w","e","b","s","i","t","e">>

DefaultTwitterCard ==
  <<"s","u","m","m","a","r","y","_","l","a","r","g","e","_","i","m","a","g",
    "e">>

BaseOrigin ==
  <<"h","t","t","p","s",":","/","/","z","e","b","z","e","t","o","o","n",".",
    "v","e","r","c","e","l",".","a","p","p","/">>

HttpScheme ==
  <<"h","t","t","p",":","/","/">>

HttpsScheme ==
  <<"h","t","t","p","s",":","/","/">>

OgPrefix ==
  <<"o","g",":">>

ChapterInfix ==
  <<" ","-"," ","B","ö","l","ü","m"," ">>

OgTitle ==
  <<"o","g",":","t","i","t","l","e">>

OgDescription ==
  <<"o","g",":","d","e","s","c","r","i","p","t","i","o","n">>

OgImage ==
  <<"o","g",":","i","m","a","g","e">>

OgUrl ==
  <<"o","g",":","u","r","l">>

OgType ==
  <<"o","g",":","t","y","p","e">>

OgSiteName ==
  <<"o","g",":","s","i","t","e","_","n","a","m","e">>

TwitterCard ==
  <<"t","w","i","t","t","e","r",":","c","a","r","d">>

TwitterTitle ==
  <<"t","w","i","t","t","e","r",":","t","i","t","l","e">>

TwitterDescription ==
  <<"t","w","i","t","t","e","r",":","d","e","s","c","r","i","p","t","i","o",
    "n">>

TwitterImage ==
  <<"t","w","i","t","t","e","r",":","i","m","a","g","e">>

PagePrefix ==
  <<"h","t","t","p","s",":","/","/","z","e","b","z","e","t","o","o","n",".",
    "g","i","t","h","u","b",".","i","o","/">>

DEFAULT_META ==
  [title |-> DefaultTitle, description |-> DefaultDescription,
   image |-> DefaultImage, siteName |-> DefaultSiteName,
   type |-> DefaultType, twitterCard |-> DefaultTwitterCard]

\* The ten keys in the order generateOpenGraphContent pushes them.
TagKeys ==
  <<OgTitle, OgDescription, OgImage, OgUrl, OgType, OgSiteName,
    TwitterCard, TwitterTitle, TwitterDescription, TwitterImage>>

\* ------------------------------------------------------ string library

\* String.prototype.startsWith
StartsWith(s, p) == Len(s) >= Len(p) /\ SubSeq(s, 1, Len(p)) = p

\* String.prototype.substring(1)
Substring1(s) == SubSeq(s, 2, Len(s))

IsWhiteSpace(c) == c \in {" ", "\t", "\n"}

RECURSIVE TrimStart(_)
TrimStart(s) ==
  IF s # <<>> /\ IsWhiteSpace(Head(s)) THEN TrimStart(Tail(s)) ELSE s

RECURSIVE TrimEnd(_)
TrimEnd(s) ==
  IF s # <<>> /\ IsWhiteSpace(s[Len(s)])
  THEN TrimEnd(SubSeq(s, 1, Len(s) - 1))
  ELSE s

\* String.prototype.trim
Trim(s) == TrimEnd(TrimStart(s))

\* JavaScript truthiness of a nullable string: null, undefined and "" are
\* falsy, every other string is truthy.
Truthy(o) == o # Null /\ o[1] # EmptyString

DigitChars == <<"0", "1", "2", "3", "4", "5", "6", "7", "8", "9">>

IsDigit(c) == \E d \in 1..10 : DigitChars[d] = c

DigitValue(c) == (CHOOSE d \in 1..10 : DigitChars[d] = c) - 1

RECURSIVE DigitsPrefix(_)
DigitsPrefix(s) ==
  IF s # <<>> /\ IsDigit(Head(s))
  THEN <<Head(s)>> \o DigitsPrefix(Tail(s))
  ELSE <<>>

RECURSIVE DigitsValue(_)
DigitsValue(ds) ==
  IF ds = <<>> THEN 0
  ELSE 10 * DigitsValue(SubSeq(ds, 1, Len(ds) - 1)) + DigitValue(ds[Len(ds)])

NaN == [nan |-> TRUE, n |-> 0]

Num(n) == [nan |-> FALSE, n |-> n]

\* parseInt(s, 10): leading white space is skipped, one sign is accepted,
\* the longest run of decimal digits is read and what follows is ignored;
\* no digit at all gives NaN.  (-0 and 0 print alike, so both are Num(0).)
parseInt(s) ==
  LET t == TrimStart(s)
      neg == t # <<>> /\ Head(t) = "-"
      signed == t # <<>> /\ Head(t) \in {"-", "+"}
      ds == DigitsPrefix(IF signed THEN Tail(t) ELSE t)
  IN  IF ds = <<>> THEN NaN
      ELSE Num(IF neg THEN 0 - DigitsValue(ds) ELSE DigitsValue(ds))

RECURSIVE NatToString(_)
NatToString(n) ==
  IF n < 10 THEN <<DigitChars[n + 1]>>
  ELSE NatToString(n \div 10) \o <<DigitChars[(n % 10) + 1]>>

\* Number-to-string conversion of a template literal.
NumberToString(x) ==
  IF x.nan THEN <<"N", "a", "N">>
  ELSE IF x.n < 0 THEN <<"-">> \o NatToString(0 - x.n)
  ELSE NatToString(x.n)

HexChars ==
  <<"0", "1", "2", "3", "4", "5", "6", "7", "8", "9",
    "A", "B", "C", "D", "E", "F">>

LowerHexChars ==
  <<"0", "1", "2", "3", "4", "5", "6", "7", "8", "9",
    "a", "b", "c", "d", "e", "f">>

IsHex(c) == \E d \in 1..16 : HexChars[d] = c \/ LowerHexChars[d] = c

HexValue(c) ==
  (CHOOSE d \in 1..16 : HexChars[d] = c \/ LowerHexChars[d] = c) - 1

\* The characters behind the escapes the modelled navigation targets use.
AsciiChar(b) ==
  CASE b = 37 -> "%"
    [] b = 65 -> "A"
    [] b = 66 -> "B"

\* decodeURIComponent: every "%" must begin an escape %XX of two hex
\* digits, which is replaced by the character it encodes; a "%" without
\* them raises URIError.  (Only one-byte escapes occur in the model.)
RECURSIVE decodeURIComponent(_)
decodeURIComponent(s) ==
  IF s = <<>> THEN [error |-> FALSE, value |-> <<>>]
  ELSE IF Head(s) # "%"
  THEN LET rest == decodeURIComponent(Tail(s))
       IN  [error |-> rest.error, value |-> <<Head(s)>> \o rest.value]
  ELSE IF Len(s) < 3 \/ ~IsHex(s[2]) \/ ~IsHex(s[3])
  THEN [error |-> TRUE, value |-> <<>>]
  ELSE LET rest == decodeURIComponent(SubSeq(s, 4, Len(s)))
       IN  [error |-> rest.error,
            value |-> <<AsciiChar(16 * HexValue(s[2]) + HexValue(s[3]))>>
                      \o rest.value]

\* ------------------------------------------------------------ pipeline

\* The navigation target as the module reads it: what
\* URLSearchParams.get returns for "seri" and "bolum" (null for a missing
\* key, the value otherwise), and window.location.href.
Location(seri, bolum, href) == [seri |-> seri, bolum |-> bolum, href |-> href]

\* parseURLParameters: error is set when decodeURIComponent raises.
parseURLParameters(loc) ==
  LET seriParam == loc.seri
      decoded == IF Truthy(seriParam)
                 THEN decodeURIComponent(seriParam[1])
                 ELSE [error |-> FALSE, value |-> <<>>]
      bolumParam == loc.bolum
  IN  [error |-> decoded.error,
       seri |-> IF Truthy(seriParam) /\ ~decoded.error
                THEN Some(decoded.value)
                ELSE Null,
       bolum |-> IF Truthy(bolumParam)
                 THEN Some(parseInt(bolumParam[1]))
                 ELSE Null]

\* The ARSIV global: never declared by any script, declared and holding
\* null or undefined, or holding an object whose own keys are the domain
\* of entries.  An entry is [meta |-> Null] or [meta |-> Some(record)].
CatalogUndeclared == [kind |-> "undeclared", entries |-> <<>>]

CatalogNull == [kind |-> "null", entries |-> <<>>]

CatalogObject(entries) == [kind |-> "object", entries |-> entries]

\* ASCII lower-casing of the letters series names of the model use.
LowerChar(c) == CASE c = "A" -> "a" [] c = "B" -> "b" [] OTHER -> c

LowerCase(s) == [i \in 1..Len(s) |-> LowerChar(s[i])]

\* A resolver that falls back to the lower-cased key.
getSeriesData_ignoreCase(catalog, seriesName) ==
  IF catalog.kind = "undeclared" THEN [error |-> TRUE, value |-> Null]
  ELSE IF catalog.kind = "null" \/ DOMAIN catalog.entries = {}
  THEN [error |-> FALSE, value |-> Null]
  ELSE IF seriesName \in DOMAIN catalog.entries
          /\ catalog.entries[seriesName].meta # Null
  THEN [error |-> FALSE, value |-> catalog.entries[seriesName].meta]
  ELSE IF LowerCase(seriesName) \in DOMAIN catalog.entries
  THEN [error |-> FALSE,
        value |-> catalog.entries[LowerCase(seriesName)].meta]
  ELSE [error |-> FALSE, value |-> Null]

\* getSeriesData: reading an identifier no script declared raises
\* ReferenceError; a falsy value or an object without keys gives null.
getSeriesData(catalog, seriesName) ==
  IF catalog.kind = "undeclared" THEN [error |-> TRUE, value |-> Null]
  ELSE IF catalog.kind = "null" \/ DOMAIN catalog.entries = {}
  THEN [error |-> FALSE, value |-> Null]
  ELSE IF seriesName \in DOMAIN catalog.entries
          /\ catalog.entries[seriesName].meta # Null
  THEN [error |-> FALSE, value |-> catalog.entries[seriesName].meta]
  ELSE [error |-> FALSE, value |-> Null]

\* A normalizer that keeps the leading separator.
convertToAbsoluteURL_keepSlash(u) ==
  IF ~Truthy(u) \/ Trim(u[1]) = EmptyString THEN DEFAULT_META.image
  ELSE IF StartsWith(u[1], HttpScheme) \/ StartsWith(u[1], HttpsScheme)
  THEN u[1]
  ELSE BaseOrigin \o u[1]

\* convertToAbsoluteURL, of a nullable string.
convertToAbsoluteURL(u) ==
  IF ~Truthy(u) \/ Trim(u[1]) = EmptyString THEN DEFAULT_META.image
  ELSE IF StartsWith(u[1], HttpScheme) \/ StartsWith(u[1], HttpsScheme)
  THEN u[1]
  ELSE LET cleanUrl == IF StartsWith(u[1], <<"/">>)
                       THEN Substring1(u[1])
                       ELSE u[1]
       IN  BaseOrigin \o cleanUrl

Tag(property, content) == [property |-> property, content |-> content]

\* A title rule that tests the chapter for truthiness, as the series is.
title_truthyChapter(p) ==
  IF Truthy(p.seri) /\ p.bolum # Null /\ ~p.bolum[1].nan /\ p.bolum[1].n # 0
  THEN p.seri[1] \o ChapterInfix \o NumberToString(p.bolum[1])
  ELSE IF Truthy(p.seri) THEN p.seri[1]
  ELSE DEFAULT_META.title

\* The title rule of generateOpenGraphContent.
title(p) ==
  IF Truthy(p.seri) /\ p.bolum # Null
  THEN p.seri[1] \o ChapterInfix \o NumberToString(p.bolum[1])
  ELSE IF Truthy(p.seri) THEN p.seri[1]
  ELSE DEFAULT_META.title

\* A description rule that only tests the summary for presence.
description_presentOnly(data) ==
  IF data # Null /\ data[1].ozet # Null
  THEN data[1].ozet[1]
  ELSE DEFAULT_META.description

\* The description rule of generateOpenGraphContent.
description(data) ==
  IF data # Null /\ Truthy(data[1].ozet)
  THEN data[1].ozet[1]
  ELSE DEFAULT_META.description

\* The image rule of generateOpenGraphContent.
imageUrl(data) ==
  IF data # Null /\ Truthy(data[1].kapak)
  THEN convertToAbsoluteURL(data[1].kapak)
  ELSE DEFAULT_META.image

\* A variant that pushes the catalog's cover as it stands for
\* twitter:image.
generateOpenGraphContent_rawTwitterImage(p, data, pageUrl) ==
  <<Tag(OgTitle, title(p)),
    Tag(OgDescription, description(data)),
    Tag(OgImage, imageUrl(data)),
    Tag(OgUrl, pageUrl),
    Tag(OgType, DEFAULT_META.type),
    Tag(OgSiteName, DEFAULT_META.siteName),
    Tag(TwitterCard, DEFAULT_META.twitterCard),
    Tag(TwitterTitle, title(p)),
    Tag(TwitterDescription, description(data)),
    Tag(TwitterImage,
        IF data # Null /\ Truthy(data[1].kapak)
        THEN data[1].kapak[1]
        ELSE DEFAULT_META.image)>>

\* generateOpenGraphContent; pageUrl is window.location.href.
generateOpenGraphContent(p, data, pageUrl) ==
  <<Tag(OgTitle, title(p)),
    Tag(OgDescription, description(data)),
    Tag(OgImage, imageUrl(data)),
    Tag(OgUrl, pageUrl),
    Tag(OgType, DEFAULT_META.type),
    Tag(OgSiteName, DEFAULT_META.siteName),
    Tag(TwitterCard, DEFAULT_META.twitterCard),
    Tag(TwitterTitle, title(p)),
    Tag(TwitterDescription, description(data)),
    Tag(TwitterImage, imageUrl(data))>>

\* A meta element: its property and name attributes (the empty string
\* when the attribute is missing: no selector of the module matches
\* either) and its content attribute.
Meta(property, name, content) ==
  [property |-> property, name |-> name, content |-> content]

Matches(e, attr, value) ==
  IF attr = "property" THEN e.property = value ELSE e.name = value

\* document.querySelector('meta[attr="value"]'): the position of the
\* first matching element in document order, 0 when there is none.
querySelector(h, attr, value) ==
  IF \E i \in 1..Len(h) : Matches(h[i], attr, value)
  THEN CHOOSE i \in 1..Len(h) :
         /\ Matches(h[i], attr, value)
         /\ \A j \in 1..(i - 1) : ~Matches(h[j], attr, value)
  ELSE 0

\* The element setMetaTag settles on for a key: by property, else by name.
FindTag(h, property) ==
  LET byProperty == querySelector(h, "property", property)
  IN  IF byProperty # 0 THEN byProperty
      ELSE querySelector(h, "name", property)

\* An upsert that looks the key up under the property attribute only.
setMetaTag_propertyOnly(h, property, content) ==
  LET tag == querySelector(h, "property", property)
  IN  IF tag # 0 THEN [h EXCEPT ![tag].content = content]
      ELSE IF StartsWith(property, OgPrefix)
      THEN Append(h, Meta(property, EmptyString, content))
      ELSE Append(h, Meta(EmptyString, property, content))

\* An upsert that gives every element it creates a property attribute.
setMetaTag_alwaysProperty(h, property, content) ==
  LET tag == FindTag(h, property)
  IN  IF tag # 0 THEN [h EXCEPT ![tag].content = content]
      ELSE Append(h, Meta(property, EmptyString, content))

\* An upsert that leaves the content of an element it finds.
setMetaTag_keepExisting(h, property, content) ==
  LET tag == FindTag(h, property)
  IN  IF tag # 0 THEN h
      ELSE IF StartsWith(property, OgPrefix)
      THEN Append(h, Meta(property, EmptyString, content))
      ELSE Append(h, Meta(EmptyString, property, content))

setMetaTag(h, property, content) ==
  LET tag == FindTag(h, property)
  IN  IF tag # 0 THEN [h EXCEPT ![tag].content = content]
      ELSE IF StartsWith(property, OgPrefix)
      THEN Append(h, Meta(property, EmptyString, content))
      ELSE Append(h, Meta(EmptyString, property, content))

RECURSIVE setMetaTags(_, _)
setMetaTags(h, tagDefinitions) ==
  IF tagDefinitions = <<>> THEN h
  ELSE setMetaTags(
         setMetaTag(h, Head(tagDefinitions).property,
                    Head(tagDefinitions).content),
         Tail(tagDefinitions))

NoParams == [seri |-> Null, bolum |-> Null]

\* An orchestrator that writes the default tags before it resolves the
\* catalog, and the resolved ones after.
initializeOpenGraphTags_writeFirst(h, loc, catalog) ==
  LET parsed == parseURLParameters(loc)
      p == [seri |-> parsed.seri, bolum |-> parsed.bolum]
      early == setMetaTags(h, generateOpenGraphContent(p, Null, loc.href))
      resolved == IF Truthy(p.seri)
                  THEN getSeriesData(catalog, p.seri[1])
                  ELSE [error |-> FALSE, value |-> Null]
      tags == generateOpenGraphContent(p, resolved.value, loc.href)
  IN  IF parsed.error
      THEN [outcome |-> "URIError", head |-> h, params |-> NoParams,
            seriesData |-> Null, metaTags |-> <<>>]
      ELSE IF resolved.error
      THEN [outcome |-> "ReferenceError", head |-> early, params |-> p,
            seriesData |-> Null, metaTags |-> <<>>]
      ELSE [outcome |-> "ok", head |-> setMetaTags(early, tags),
            params |-> p, seriesData |-> resolved.value, metaTags |-> tags]

\* initializeOpenGraphTags on the document h: the outcome is "ok" or the
\* error that ended the run, head is the document it leaves.
initializeOpenGraphTags(h, loc, catalog) ==
  LET parsed == parseURLParameters(loc)
      p == [seri |-> parsed.seri, bolum |-> parsed.bolum]
      resolved == IF Truthy(p.seri)
                  THEN getSeriesData(catalog, p.seri[1])
                  ELSE [error |-> FALSE, value |-> Null]
      tags == generateOpenGraphContent(p, resolved.value, loc.href)
  IN  IF parsed.error
      THEN [outcome |-> "URIError", head |-> h, params |-> NoParams,
            seriesData |-> Null, metaTags |-> <<>>]
      ELSE IF resolved.error
      THEN [outcome |-> "ReferenceError", head |-> h, params |-> p,
            seriesData |-> Null, metaTags |-> <<>>]
      ELSE [outcome |-> "ok", head |-> setMetaTags(h, tags), params |-> p,
            seriesData |-> resolved.value, metaTags |-> tags]

\* -------------------------------------------------------------- inputs

MaxHead == 2

MaxBolumLen == 2

MaxUrlLen == 3

\* All strings of at most n characters over an alphabet.
Strings(alphabet, n) == UNION {[1..k -> alphabet] : k \in 0..n}

Optional(S) == {Null} \cup {Some(s) : s \in S}

\* The address-bar form of a query value: "%" is escaped as "%25".
RECURSIVE Escape(_)
Escape(s) ==
  IF s = <<>> THEN <<>>
  ELSE (IF Head(s) = "%" THEN <<"%", "2", "5">> ELSE <<Head(s)>>)
       \o Escape(Tail(s))

\* window.location.href of the page opened with the given query values.
Href(seri, bolum) ==
  PagePrefix \o <<"?">>
  \o (IF seri = Null THEN <<>>
      ELSE <<"s", "e", "r", "i", "=">> \o Escape(seri[1]))
  \o (IF bolum = Null THEN <<>>
      ELSE <<"&", "b", "o", "l", "u", "m", "=">> \o Escape(bolum[1]))

Target(seri, bolum) == Location(seri, bolum, Href(seri, bolum))

SeriesA == <<"A">>

SeriesB == <<"B">>

\* Values of the seri key: missing, empty, two names, a name that is
\* itself an escape, and a lone "%".
SeriValues ==
  {Null, Some(EmptyString), Some(SeriesA), Some(SeriesB),
   Some(<<"%", "4", "1">>), Some(<<"%">>)}

\* Values of the bolum key: missing, or any short string of these
\* characters (among them "", "0", "8", "08", "-8", "8x", "x8", " 8").
BolumValues == Optional(Strings({"0", "8", "x", "-", " "}, MaxBolumLen))

\* The navigation targets of the page model: the bare page, each series
\* with and without a chapter, and a series value that is a lone "%".
NavTargets ==
  {Target(Null, Null), Target(Some(<<"%">>), Null)}
  \cup {Target(Some(s), b) : s \in {SeriesA, SeriesB},
                              b \in {Null, Some(<<"8">>)}}

\* Every ParameterSet the Parameter Extractor can return.
ParameterSets ==
  {[seri |-> parseURLParameters(Target(s, b)).seri,
    bolum |-> parseURLParameters(Target(s, b)).bolum] :
     s \in {v \in SeriValues : ~parseURLParameters(Target(v, Null)).error},
     b \in BolumValues}

Covers ==
  {Null, Some(EmptyString), Some(<<" ">>), Some(<<"c">>),
   Some(<<"/", "c">>), Some(HttpScheme \o <<"c">>),
   Some(HttpsScheme \o <<"c">>)}

Summaries == {Null, Some(EmptyString), Some(<<"S">>), Some(<<" ">>)}

SeriesRecords == {[kapak |-> k, ozet |-> o] : k \in Covers, o \in Summaries}

\* What the Catalog Resolver can hand to the Content Synthesizer.
ResolutionResults == Optional(SeriesRecords)

FullRecord == [kapak |-> Some(<<"/", "c">>), ozet |-> Some(<<"S">>)]

BareRecord == [kapak |-> Null, ozet |-> Some(EmptyString)]

Entry(meta) == [meta |-> meta]

\* The catalogs of the page model: never declared, null, without keys,
\* an entry without meta, a full record (beside a key that differs from
\* SeriesB in case only), and a record without cover and summary.
Catalogs ==
  {CatalogUndeclared, CatalogNull, CatalogObject(<<>>),
   CatalogObject([n \in {SeriesA} |-> Entry(Null)]),
   CatalogObject([n \in {SeriesA, <<"b">>} |-> Entry(Some(FullRecord))]),
   CatalogObject([n \in {SeriesA} |-> Entry(Some(BareRecord))])}

OldContent == <<"o", "l", "d">>

\* Meta elements a served page may carry: an og key under property, an
\* og key under name, a twitter key under name, one element serving
\* og:image and twitter:image, one element carrying og:url under property
\* and og:type under name, and an element none of the ten keys matches.
ElementPool ==
  {Meta(OgTitle, EmptyString, OldContent),
   Meta(EmptyString, OgTitle, OldContent),
   Meta(EmptyString, TwitterTitle, OldContent),
   Meta(OgImage, TwitterImage, OldContent),
   Meta(OgUrl, OgType, OldContent),
   Meta(EmptyString, <<"d">>, OldContent)}

InitialHeads == UNION {[1..k -> ElementPool] : k \in 0..MaxHead}

UrlInputs ==
  Optional(Strings({"/", " ", "c"}, MaxUrlLen)
           \cup {scheme \o s : scheme \in {HttpScheme, HttpsScheme,
                                           <<"h", "t", "t", "p", ":", "/">>},
                               s \in Strings({"/", " ", "c"}, 2)})

\* ------------------------------------------------ the page (Spec)

Init ==
  /\ head \in InitialHeads
  /\ head0 = head
  /\ location \in NavTargets
  /\ ARSIV \in Catalogs
  /\ loaded = FALSE
  /\ outcome = "none"
  /\ params = NoParams
  /\ seriesData = Null
  /\ metaTags = <<>>
  /\ superseded = FALSE
  /\ url = Null
  /\ absolute = Null

\* One run of the handler both listeners are bound to.
RunHandler ==
  LET run == initializeOpenGraphTags(head, location', ARSIV)
  IN  /\ head' = run.head
      /\ outcome' = run.outcome
      /\ params' = run.params
      /\ seriesData' = run.seriesData
      /\ metaTags' = run.metaTags
      /\ superseded' = (outcome = "ok" /\ run.outcome = "ok"
                        /\ location' # location)
      /\ UNCHANGED <<head0, ARSIV, url, absolute>>

\* The document-ready signal: fires once, before any history navigation.
DOMContentLoaded ==
  /\ ~loaded
  /\ loaded' = TRUE
  /\ location' = location
  /\ RunHandler

\* A history navigation to target t, then the popstate listener.
PopState(t) ==
  /\ loaded
  /\ loaded' = loaded
  /\ location' = t
  /\ RunHandler

Next == DOMContentLoaded \/ \E t \in NavTargets : PopState(t)

Spec == Init /\ [][Next]_vars

\* ------------------------------- the Content Synthesizer (SpecGen)

InitGen ==
  /\ params \in ParameterSets
  /\ seriesData \in ResolutionResults
  /\ location = Target(Null, Null)
  /\ head = <<>>
  /\ head0 = <<>>
  /\ ARSIV = CatalogNull
  /\ loaded = FALSE
  /\ outcome = "none"
  /\ metaTags = <<>>
  /\ superseded = FALSE
  /\ url = Null
  /\ absolute = Null

Generate ==
  /\ outcome = "none"
  /\ outcome' = "ok"
  /\ metaTags' = generateOpenGraphContent(params, seriesData, location.href)
  /\ UNCHANGED <<head, head0, location, ARSIV, loaded, params, seriesData,
                 superseded, url, absolute>>

NextGen == Generate

SpecGen == InitGen /\ [][NextGen]_vars

\* ------------------------------------ the URL Normalizer (SpecURL)

InitURL ==
  /\ url \in UrlInputs
  /\ absolute = Null
  /\ outcome = "none"
  /\ location = Target(Null, Null)
  /\ head = <<>>
  /\ head0 = <<>>
  /\ ARSIV = CatalogNull
  /\ loaded = FALSE
  /\ params = NoParams
  /\ seriesData = Null
  /\ metaTags = <<>>
  /\ superseded = FALSE

Convert ==
  /\ outcome = "none"
  /\ outcome' = "ok"
  /\ absolute' = Some(convertToAbsoluteURL(url))
  /\ UNCHANGED <<head, head0, location, ARSIV, loaded, params, seriesData,
                 metaTags, superseded, url>>

NextURL == Convert

SpecURL == InitURL /\ [][NextURL]_vars

\* ------------------------------------------------------------- claims

KeySet == {TagKeys[i] : i \in 1..Len(TagKeys)}

\* How many elements of h carry the key, under either attribute.
KeyCount(h, k) ==
  Cardinality({i \in 1..Len(h) : h[i].property = k \/ h[i].name = k})

\* The list a run for the current navigation target and catalog
\* synthesizes, whatever the document holds.
Synthesized == initializeOpenGraphTags(<<>>, location, ARSIV).metaTags

\* C1: Tag Applier idempotence.  Once a run has applied its tag list,
\* applying the same list again creates no element and changes no
\* element's attributes or content: the document is the same.
C1_Idempotence ==
  outcome = "ok" =>
    /\ Len(setMetaTags(head, metaTags)) = Len(head)
    /\ setMetaTags(head, metaTags) = head

\* A run applied its list to a served page that had two meta elements and
\* created the missing ones.
C1_Witness == outcome = "ok" /\ Len(head0) = 2 /\ Len(head) > 2

\* C2: upsert correctness of setMetaTag(key, value) on every document a
\* run can meet.  An element matching the key under property, or failing
\* that under name, has its content overwritten and nothing is created;
\* otherwise exactly one element is appended, with a property attribute
\* for an og: key and a name attribute for any other.  And after a
\* completed run every key has as many elements as the served page had,
\* or one if it had none, so the count never grows from run to run.
C2_Upsert ==
  /\ \A k \in KeySet :
       LET byProperty == querySelector(head, "property", k)
           byName == querySelector(head, "name", k)
           found == IF byProperty # 0 THEN byProperty ELSE byName
           after == setMetaTag(head, k, <<"v">>)
       IN  IF found # 0
           THEN /\ Len(after) = Len(head)
                /\ after[found].content = <<"v">>
                /\ after[found].property = head[found].property
                /\ after[found].name = head[found].name
                /\ \A i \in 1..Len(head) : i # found => after[i] = head[i]
           ELSE /\ Len(after) = Len(head) + 1
                /\ SubSeq(after, 1, Len(head)) = head
                /\ after[Len(after)].content = <<"v">>
                /\ IF SubSeq(k, 1, 3) = <<"o", "g", ":">>
                   THEN /\ after[Len(after)].property = k
                        /\ after[Len(after)].name = EmptyString
                   ELSE /\ after[Len(after)].name = k
                        /\ after[Len(after)].property = EmptyString
  /\ outcome = "ok" =>
       \A k \in KeySet :
         KeyCount(head, k) =
           IF KeyCount(head0, k) = 0 THEN 1 ELSE KeyCount(head0, k)

\* A run for a series found the served page's og:title element, gave it
\* the new title and created no second one, while it created the
\* twitter:card element under a name attribute.
C2_Witness ==
  /\ outcome = "ok"
  /\ params.seri # Null
  /\ Len(head0) >= 1
  /\ head0[1] = Meta(OgTitle, EmptyString, OldContent)
  /\ head[1] = Meta(OgTitle, EmptyString, metaTags[1].content)
  /\ head[1].content # OldContent
  /\ KeyCount(head, OgTitle) = 1
  /\ \E i \in 1..Len(head) : head[i].name = TwitterCard /\ i > Len(head0)

\* C3: fallback totality.  The Content Synthesizer returns exactly ten
\* tag definitions, keyed in the fixed order, and the title, description
\* and image values are non-empty.
C3_FallbackTotality ==
  outcome = "ok" =>
    /\ Len(metaTags) = 10
    /\ \A i \in 1..10 : metaTags[i].property = TagKeys[i]
    /\ metaTags[1].content # EmptyString
    /\ metaTags[2].content # EmptyString
    /\ metaTags[3].content # EmptyString

\* The list was synthesized for a record whose cover and summary are both
\* the empty string.
C3_Witness ==
  /\ outcome = "ok"
  /\ seriesData = Some([kapak |-> Some(EmptyString),
                        ozet |-> Some(EmptyString)])
  /\ metaTags[2].content = DefaultDescription
  /\ metaTags[3].content = DefaultImage

\* C4: title branching.  With a series and a chapter that is not absent
\* (0 and NaN included) the title is "{series} - Bölüm {chapter}"; with a
\* series and no chapter it is the series name; without a series it is
\* the default title; the resolution result plays no part.
C4_TitleBranching ==
  outcome = "ok" =>
    /\ metaTags[1].content =
         IF params.seri # Null /\ params.bolum # Null
         THEN params.seri[1] \o ChapterInfix
              \o NumberToString(params.bolum[1])
         ELSE IF params.seri # Null THEN params.seri[1]
         ELSE DefaultTitle
    /\ params = [seri |-> Some(SeriesA), bolum |-> Some(Num(0))] =>
         metaTags[1].content =
           <<"A", " ", "-", " ", "B", "ö", "l", "ü", "m", " ", "0">>
    /\ params = [seri |-> Some(SeriesA), bolum |-> Some(NaN)] =>
         metaTags[1].content =
           <<"A", " ", "-", " ", "B", "ö", "l", "ü", "m", " ", "N", "a", "N">>
    /\ params = [seri |-> Some(SeriesA), bolum |-> Some(Num(8))] =>
         metaTags[1].content =
           <<"A", " ", "-", " ", "B", "ö", "l", "ü", "m", " ", "8">>

\* A title was synthesized for a series with a not-a-number chapter and a
\* resolved record.
C4_Witness ==
  /\ outcome = "ok"
  /\ params = [seri |-> Some(SeriesA), bolum |-> Some(NaN)]
  /\ seriesData # Null
  /\ Len(metaTags[1].content) = 13

\* C5: catalog-miss fallback.  A completed run with a series whose lookup
\* returned "not found" has the default description and image and a title
\* made of the series name; the lookup is "not found" when the catalog
\* is null or has no keys, has no entry under the exact key or an entry
\* without meta, and is the entry's meta otherwise.
C5_CatalogMiss ==
  (outcome = "ok" /\ params.seri # Null) =>
    LET name == params.seri[1]
        present == /\ ARSIV.kind = "object"
                   /\ name \in DOMAIN ARSIV.entries
                   /\ ARSIV.entries[name].meta # Null
    IN  /\ seriesData = IF present THEN ARSIV.entries[name].meta ELSE Null
        /\ seriesData = Null =>
             /\ metaTags[2].content = DefaultDescription
             /\ metaTags[3].content = DefaultImage
             /\ metaTags[1].content =
                  IF params.bolum = Null THEN name
                  ELSE name \o ChapterInfix \o NumberToString(params.bolum[1])

\* A run for series "B" completed against a catalog whose only similar
\* key is "b".
C5_Witness ==
  /\ outcome = "ok"
  /\ params.seri = Some(SeriesB)
  /\ ARSIV.kind = "object"
  /\ <<"b">> \in DOMAIN ARSIV.entries
  /\ seriesData = Null
  /\ metaTags[3].content = DefaultImage

\* C6: URL Normalizer contract.  Absent, empty and white-space-only input
\* gives the default image; input beginning with http:// or https:// is
\* returned unchanged; any other input loses at most one leading "/" and
\* is appended to the base origin, so "/x" and "x" normalize alike for a
\* relative x; the result is never empty.
C6_Normalizer ==
  outcome = "ok" =>
    LET result == absolute[1]
        blank == url = Null
                 \/ \A i \in 1..Len(url[1]) : url[1][i] \in {" ", "\t", "\n"}
        isAbsolute ==
          \/ Len(url[1]) >= 7 /\ SubSeq(url[1], 1, 7) = HttpScheme
          \/ Len(url[1]) >= 8 /\ SubSeq(url[1], 1, 8) = HttpsScheme
    IN  /\ absolute # Null
        /\ result # EmptyString
        /\ IF blank THEN result = DefaultImage
           ELSE IF isAbsolute THEN result = url[1]
           ELSE IF url[1][1] = "/"
           THEN /\ result = BaseOrigin \o Tail(url[1])
                /\ (Tail(url[1]) # <<>> /\ Tail(url[1])[1] = "c") =>
                     result = convertToAbsoluteURL(Some(Tail(url[1])))
           ELSE result = BaseOrigin \o url[1]

\* The normalizer was applied to "/c" and returned the base origin
\* followed by "c".
C6_Witness ==
  /\ outcome = "ok"
  /\ url = Some(<<"/", "c">>)
  /\ absolute = Some(BaseOrigin \o <<"c">>)

\* C7: Twitter mirroring.  In the synthesized list twitter:title,
\* twitter:description and twitter:image carry the values of og:title,
\* og:description and og:image.
C7_TwitterMirror ==
  outcome = "ok" =>
    /\ metaTags[8].property = TwitterTitle
    /\ metaTags[8].content = metaTags[1].content
    /\ metaTags[9].property = TwitterDescription
    /\ metaTags[9].content = metaTags[2].content
    /\ metaTags[10].property = TwitterImage
    /\ metaTags[10].content = metaTags[3].content

\* The list was synthesized for a series with a chapter and a record with
\* a relative cover and a summary.
C7_Witness ==
  /\ outcome = "ok"
  /\ params = [seri |-> Some(SeriesA), bolum |-> Some(Num(8))]
  /\ seriesData = Some(FullRecord)
  /\ metaTags[10].content = BaseOrigin \o <<"c">>

\* C8: all-or-nothing.  Every run either completes, having applied all
\* ten tag definitions so that each key finds an element, or fails
\* upstream and leaves the document exactly as it was.
C8_AllOrNothing ==
  [][\/ /\ outcome' = "ok"
        /\ Len(metaTags') = 10
        /\ head' = setMetaTags(head, metaTags')
        /\ \A k \in KeySet : FindTag(head', k) # 0
     \/ /\ outcome' \in {"URIError", "ReferenceError"}
        /\ head' = head]_vars

\* A run failed upstream on a document an earlier run had written to.
C8_Witness ==
  /\ outcome \in {"URIError", "ReferenceError"}
  /\ head # head0
  /\ \A k \in KeySet : FindTag(head, k) # 0

\* C9: an absent catalog degrades gracefully.  After a run whose series
\* parameter is present, with the catalog never declared, null or without
\* keys, the run has completed and written ten tags with the default
\* description and image.
C9_AbsentCatalogGraceful ==
  (/\ loaded
   /\ ~parseURLParameters(location).error
   /\ parseURLParameters(location).seri # Null
   /\ \/ ARSIV.kind \in {"undeclared", "null"}
      \/ DOMAIN ARSIV.entries = {}) =>
    /\ outcome = "ok"
    /\ Len(metaTags) = 10
    /\ metaTags[2].content = DefaultDescription
    /\ metaTags[3].content = DefaultImage
    /\ \A k \in KeySet : FindTag(head, k) # 0

\* The element a key finds in the document.
Found(k) == head[FindTag(head, k)]

\* The last position of the tag list whose key finds the element that
\* the key at position i finds.
LastWriter(i) ==
  CHOOSE j \in 1..10 :
    /\ FindTag(head, TagKeys[j]) = FindTag(head, TagKeys[i])
    /\ \A m \in (j + 1)..10 :
         FindTag(head, TagKeys[m]) # FindTag(head, TagKeys[i])

\* C10 as stated: after each completed run the element found for each of
\* the ten keys holds the value synthesized for that key from the current
\* navigation target and catalog, and the document is the one a single
\* run for that target would have made of the served page.
C10_Supersedes ==
  outcome = "ok" =>
    /\ \A i \in 1..10 : Found(TagKeys[i]).content = Synthesized[i].content
    /\ head = initializeOpenGraphTags(head0, location, ARSIV).head

\* C10 amended: after each completed run the document is the one a single
\* run for the current navigation target would have made of the served
\* page, and the element found for each key holds the value synthesized
\* from the current target and catalog for the last key, in list order,
\* that finds that element: the key's own value unless a later key finds
\* the same element.
C10_SupersedesLastWriter ==
  outcome = "ok" =>
    /\ \A i \in 1..10 :
         /\ FindTag(head, TagKeys[i]) # 0
         /\ Found(TagKeys[i]).content = Synthesized[LastWriter(i)].content
         /\ LastWriter(i) = i =>
              Found(TagKeys[i]).content = Synthesized[i].content
    /\ head = initializeOpenGraphTags(head0, location, ARSIV).head

\* A run completed after a completed run for another navigation target,
\* on a page served with one element carrying og:url under property and
\* og:type under name and one carrying og:title.
C10_Witness ==
  /\ outcome = "ok"
  /\ superseded
  /\ head0 = <<Meta(OgUrl, OgType, OldContent),
               Meta(OgTitle, EmptyString, OldContent)>>
  /\ LastWriter(4) = 5
  /\ head[2].content = Synthesized[1].content

====
